---- MODULE Spec2Model ----
(***************************************************************************)
(* Model of the statement parser of email-pdf-processor (src/src/main.py): *)
(* PDFDataExtractor.extract_store_sections (segmentation of page text into *)
(* per-store sections), PDFDataExtractor.parse_store_transactions (the     *)
(* pattern cascade, the running total and the classification),             *)
(* PDFDataExtractor.process_single_pdf (the table of one document or its   *)
(* failure), IntegratedApp.process_pdfs_to_excel (the worksheets and the   *)
(* summary of a list of documents), and the processing run of the window:  *)
(* process_files, run_processing, process_complete, cleanup_temp_folder.   *)
(*                                                                         *)
(* Text representation.  A text is a sequence of fields; a field is the    *)
(* run of characters between two single spaces, written as a sequence of   *)
(* symbols.  A symbol is one character ("1", ".", "-") or an opaque word   *)
(* ("REMITTANCE", "t/a", "Foo") whose letters are not looked into.  The    *)
(* newline is the field NL.  An empty field stands for the empty string    *)
(* between two adjacent spaces (or after a trailing space).  Substring     *)
(* tests and str.find work on whole fields.                                *)
(*                                                                         *)
(* Python's None is the empty tuple and a value v is the 1-tuple <<v>>.    *)
(* Amounts and totals are integers counted in hundredths.                  *)
(***************************************************************************)
EXTENDS Integers, Sequences, FiniteSets, TLC

(***************************************************************************)
(* Bounds of the checked inputs.                                           *)
(***************************************************************************)
\* Lines plus page breaks of an arbitrary small document.
MaxDocItems == 4
\* Lines of an arbitrary section body handed to the parser.
MaxBodyLines == 3

(***************************************************************************)
(* Python values.                                                          *)
(***************************************************************************)
None == <<>>

Some(v) == <<v>>

(***************************************************************************)
(* Fields and lines the inputs are built from.                             *)
(***************************************************************************)
W(s) == <<s>>

NL == W("\n")

EmptyField == <<>>

Marker == << W("REMITTANCE") >>

TableStart == << W("Date"), W("Amount"), W("Total") >>

TableEnd == << W("TOTAL"), W("AS"), W("PER"), W("STATEMENT") >>

RebateText == << W("TRG"), W("-"), W("CA"), W("SALES"), W("-"), W("MONDELEZ") >>

LineMarker == << W("REMITTANCE"), W("ADVICE") >>

LineHeaderA == << W("Acme"), W("t/a"), W("-"), W("StoreA") >>

LineHeaderB == << W("Acme"), W("t/a"), W("-"), W("StoreB") >>

\* "Acme t/a - " : the header pattern with an empty name.
LineHeaderEmpty == << W("Acme"), W("t/a"), W("-"), EmptyField >>

LineTableStart == TableStart

LineTableEnd == TableEnd

Date01 == <<"0","1","-","J","a","n","-","2","0","2","4">>

Date02 == <<"0","2","-","J","a","n","-","2","0","2","4">>

Date03 == <<"0","3","-","J","a","n","-","2","0","2","4">>

\* "01-Jan-2024 Foo 100.00 100.00"
LineFoo == << Date01, W("Foo"), <<"1","0","0",".","0","0">>, <<"1","0","0",".","0","0">> >>

\* "02-Jan-2024 Bar 50.00 0.00"
LineBar == << Date02, W("Bar"), <<"5","0",".","0","0">>, <<"0",".","0","0">> >>

Date05 == <<"0","5","-","J","a","n","-","2","0","2","4">>

Date06 == <<"0","6","-","J","a","n","-","2","0","2","4">>

\* "03-Jan-2024 Baz -150.00 0"
LineBaz == << Date03, W("Baz"), <<"-","1","5","0",".","0","0">>, <<"0">> >>

\* "03-Jan-2024 Qux 25.00 " : no total, a blank after the amount
LineQux == << Date03, W("Qux"), <<"2","5",".","0","0">>, EmptyField >>

\* "05-Jan-2024 Sale 200.00 200.00"
LineSale == << Date05, W("Sale"), <<"2","0","0",".","0","0">>, <<"2","0","0",".","0","0">> >>

\* "06-Jan-2024 Revesal item -50.00 150.00"
LineRevesal ==
    << Date06, W("Revesal"), W("item"), <<"-","5","0",".","0","0">>, <<"1","5","0",".","0","0">> >>

\* "06-Jan-2024 Fee 0.75 .75"
LineFee == << Date06, W("Fee"), <<"0",".","7","5">>, <<".","7","5">> >>

\* "06-Jan-2024 TRG - CA SALES - MONDELEZ Reversal -10.00 1,140.00"
LineRebate ==
    << Date06 >> \o RebateText
        \o << W("Reversal"), <<"-","1","0",".","0","0">>, <<"1",",","1","4","0",".","0","0">> >>

\* "05-Jan-2024 Zed 5.00 n/a"
LineJunk == << Date05, W("Zed"), <<"5",".","0","0">>, W("n/a") >>

\* "05-Jan-2024 Nil 0.00 CR 12.50"
LineDebris == << Date05, W("Nil"), <<"0",".","0","0">>, W("CR"), <<"1","2",".","5","0">> >>

\* "02-Jan-2024 Refund -20.00 80.00"
LineRefund == << Date02, W("Refund"), <<"-","2","0",".","0","0">>, <<"8","0",".","0","0">> >>

\* "Prepared by Jo"
LinePrepared == << W("Prepared"), W("by"), W("Jo") >>

\* "Page 1"
LinePage == << W("Page"), <<"1">> >>

(***************************************************************************)
(* str operations, on sequences of fields.                                 *)
(***************************************************************************)
\* str.find: the 0-based index of the first occurrence of sub, -1 if none.
Find(text, sub) ==
    LET hits == { p \in 1..(Len(text) - Len(sub) + 1) :
                      SubSeq(text, p, p + Len(sub) - 1) = sub }
    IN IF hits = {} THEN -1
       ELSE (CHOOSE p \in hits : \A q \in hits : p <= q) - 1

\* sub in text
Contains(text, sub) == Find(text, sub) # -1

\* text[:n], a negative n counting from the end as Python does, an n beyond
\* the end giving the whole text
SlicePrefix(text, n) ==
    IF n >= Len(text) THEN text
    ELSE IF n >= 0 THEN SubSeq(text, 1, n)
    ELSE SubSeq(text, 1, Len(text) + n)

RECURSIVE Join(_)
\* '\n'.join(ls)
Join(ls) ==
    IF ls = <<>> THEN <<>>
    ELSE IF Len(ls) = 1 THEN ls[1]
    ELSE ls[1] \o <<NL>> \o Join(Tail(ls))

RECURSIVE Split(_)
\* text.split('\n'): always at least one line
Split(text) ==
    LET k == Find(text, <<NL>>)
    IN IF k = -1 THEN <<text>>
       ELSE <<SubSeq(text, 1, k)>> \o Split(SubSeq(text, k + 2, Len(text)))

RECURSIVE Strip(_)
\* str.strip(), on the fields of one line: drops the empty fields at both ends
Strip(fs) ==
    IF fs = <<>> THEN fs
    ELSE IF fs[1] = EmptyField THEN Strip(Tail(fs))
    ELSE IF fs[Len(fs)] = EmptyField THEN Strip(SubSeq(fs, 1, Len(fs) - 1))
    ELSE fs

\* Truth value of an Optional[str]: None and "" are false.
Truthy(s) == s # None /\ s[1] # <<>>

(***************************************************************************)
(* dict, kept in insertion order as Python keeps it.                       *)
(***************************************************************************)
DictKeys(d) == { d[k].key : k \in DOMAIN d }

DictGet(d, key) == (CHOOSE k \in DOMAIN d : d[k].key = key)

\* d.setdefault(key, value): an old key keeps its value
DictSet_KeepOld(d, key, value) ==
    IF key \in DictKeys(d) THEN d ELSE Append(d, [key |-> key, value |-> value])

\* d[key] = value: a new key goes last, an old key keeps its place
DictSet(d, key, value) ==
    IF key \in DictKeys(d)
    THEN [k \in DOMAIN d |->
             IF d[k].key = key THEN [key |-> key, value |-> value] ELSE d[k]]
    ELSE Append(d, [key |-> key, value |-> value])

\* d[key]
DictValue(d, key) == d[DictGet(d, key)].value

(***************************************************************************)
(* The store header, r'(.*?)\s+t/a\s+-\s+(.*?)$' under re.search.          *)
(***************************************************************************)
\* Positions k of the field "t/a": a space before it (k >= 2), then the field
\* "-", then at least one more space, so at least one more field.
HeaderPositions(line) ==
    { k \in 2..(Len(line) - 2) : line[k] = W("t/a") /\ line[k + 1] = W("-") }

HeaderMatch(line) == HeaderPositions(line) # {}

\* store_header_match.group(2).strip(): what follows the leftmost match
HeaderName(line) ==
    LET k == CHOOSE p \in HeaderPositions(line) :
                 \A q \in HeaderPositions(line) : p <= q
    IN Strip(SubSeq(line, k + 2, Len(line)))

\* "REMITTANCE" in text[:text.find(line)]
MarkerBefore(text, line) == Contains(SlicePrefix(text, Find(text, line)), Marker)

\* Line 217 without its look-back for the marker.
IsStoreHeader_NoMarker(text, line) == HeaderMatch(line)

\* The condition of line 217.
IsStoreHeader(text, line) == HeaderMatch(line) /\ MarkerBefore(text, line)

(***************************************************************************)
(* Characters and numbers.                                                 *)
(***************************************************************************)
Digits == { "0", "1", "2", "3", "4", "5", "6", "7", "8", "9" }

Letters ==
    { "a", "b", "c", "d", "e", "f", "g", "h", "i", "j", "k", "l", "m",
      "n", "o", "p", "q", "r", "s", "t", "u", "v", "w", "x", "y", "z",
      "A", "B", "C", "D", "E", "F", "G", "H", "I", "J", "K", "L", "M",
      "N", "O", "P", "Q", "R", "S", "T", "U", "V", "W", "X", "Y", "Z" }

\* \w
WordChars == Digits \cup Letters \cup { "_" }

DigitValue(c) ==
    CASE c = "0" -> 0 [] c = "1" -> 1 [] c = "2" -> 2 [] c = "3" -> 3 [] c = "4" -> 4
      [] c = "5" -> 5 [] c = "6" -> 6 [] c = "7" -> 7 [] c = "8" -> 8 [] c = "9" -> 9

DigitChar(n) ==
    CASE n = 0 -> "0" [] n = 1 -> "1" [] n = 2 -> "2" [] n = 3 -> "3" [] n = 4 -> "4"
      [] n = 5 -> "5" [] n = 6 -> "6" [] n = 7 -> "7" [] n = 8 -> "8" [] n = 9 -> "9"

AllIn(cs, set) == \A i \in 1..Len(cs) : cs[i] \in set

RECURSIVE DigitsValue(_)
\* The number a run of digits denotes.
DigitsValue(cs) ==
    IF cs = << >> THEN 0
    ELSE 10 * DigitsValue(SubSeq(cs, 1, Len(cs) - 1)) + DigitValue(cs[Len(cs)])

RECURSIVE DigitsOf(_)
\* The digits of a natural number.
DigitsOf(n) ==
    IF n < 10 THEN << DigitChar(n) >> ELSE Append(DigitsOf(n \div 10), DigitChar(n % 10))

\* float(s) of one field: [+-]? digits [. digits] or [+-]? . digits, in
\* hundredths; None where float raises ValueError.  The inputs carry at most
\* two decimals, and sums are exact.
ParseFloat(f) ==
    LET signed == f # << >> /\ f[1] \in { "+", "-" }
        body == IF signed THEN Tail(f) ELSE f
        dots == { i \in 1..Len(body) : body[i] = "." }
        d == IF dots = { } THEN Len(body) + 1 ELSE CHOOSE i \in dots : TRUE
        int == SubSeq(body, 1, d - 1)
        frac == SubSeq(body, d + 1, Len(body))
        sign == IF signed /\ f[1] = "-" THEN -1 ELSE 1
    IN IF /\ Cardinality(dots) <= 1
          /\ AllIn(int, Digits) /\ AllIn(frac, Digits)
          /\ Len(int) + Len(frac) >= 1
          /\ Len(frac) <= 2
       THEN Some(sign * (100 * DigitsValue(int)
                         + (IF Len(frac) = 1 THEN 10 ELSE 1) * DigitsValue(frac)))
       ELSE None

\* str(x) of a float: "150.0", "0.75", "-12.5"; the fraction has no trailing
\* zero but at least one digit.
StrFloat(v) ==
    LET a == IF v < 0 THEN -v ELSE v
        frac == a % 100
    IN << (IF v < 0 THEN << "-" >> ELSE << >>)
            \o DigitsOf(a \div 100) \o << "." >>
            \o (IF frac % 10 = 0 THEN << DigitChar(frac \div 10) >>
                ELSE << DigitChar(frac \div 10), DigitChar(frac % 10) >>) >>

\* s.replace(',', '') of one field
RemoveCommas(f) == SelectSeq(f, LAMBDA c : c # ",")

\* float(s) of a string of fields: the surrounding blanks are stripped, a blank
\* inside is a ValueError.
FloatOf(s) == IF Len(Strip(s)) = 1 THEN ParseFloat(Strip(s)[1]) ELSE None

RECURSIVE Chars(_)
\* The characters of a string of fields, a " " between two fields.
Chars(s) ==
    IF s = << >> THEN << >>
    ELSE IF Len(s) = 1 THEN s[1]
    ELSE s[1] \o << " " >> \o Chars(Tail(s))

\* The length of the longest run of characters of set that starts at cs[p].
RunLength(cs, p, set) ==
    LET most == IF p > Len(cs) THEN 0 ELSE Len(cs) - p + 1
        ends == { n \in 0..most : AllIn(SubSeq(cs, p, p + n - 1), set) }
    IN CHOOSE n \in ends : \A m \in ends : m <= n

\* The match of r'[+-]?[\d,]+\.\d+' at cs[p], << >> if there is none.
NumberAt(cs, p) ==
    LET q == IF cs[p] \in { "+", "-" } THEN p + 1 ELSE p
        n == RunLength(cs, q, Digits \cup { "," })
        m == RunLength(cs, q + n + 1, Digits)
    IN IF n >= 1 /\ q + n <= Len(cs) /\ cs[q + n] = "." /\ m >= 1
       THEN SubSeq(cs, p, q + n + m)
       ELSE << >>

\* re.findall(r'[+-]?[\d,]+\.\d+', total): None for an empty list, else
\* float(numbers[0].replace(',', ''))
FirstNumber(s) ==
    LET cs == Chars(s)
        hits == { p \in 1..Len(cs) : NumberAt(cs, p) # << >> }
    IN IF hits = { } THEN None
       ELSE ParseFloat(RemoveCommas(NumberAt(cs, CHOOSE p \in hits : \A q \in hits : p <= q)))

(***************************************************************************)
(* The three patterns of parse_store_transactions, under re.match.         *)
(***************************************************************************)
\* (\d{1,2}-\w{3}-\d{4})
IsDate(f) ==
    /\ Len(f) \in { 10, 11 }
    /\ LET n == Len(f) - 9
       IN /\ AllIn(SubSeq(f, 1, n), Digits)
          /\ f[n + 1] = "-"
          /\ AllIn(SubSeq(f, n + 2, n + 4), WordChars)
          /\ f[n + 5] = "-"
          /\ AllIn(SubSeq(f, n + 6, n + 9), Digits)

\* ([+-]?[\d,]+\.\d{2})
IsAmount(f) ==
    LET body == IF f # << >> /\ f[1] \in { "+", "-" } THEN Tail(f) ELSE f
    IN /\ Len(body) >= 4
       /\ AllIn(SubSeq(body, 1, Len(body) - 3), Digits \cup { "," })
       /\ body[Len(body) - 2] = "."
       /\ AllIn(SubSeq(body, Len(body) - 1, Len(body)), Digits)

\* (\.\d{2}|\d*\.\d{2})
IsShortTotal(f) ==
    /\ Len(f) >= 3
    /\ AllIn(SubSeq(f, 1, Len(f) - 3), Digits)
    /\ f[Len(f) - 2] = "."
    /\ AllIn(SubSeq(f, Len(f) - 1, Len(f)), Digits)

\* Patterns 1 and 2 end with \s+(total)$: the total is the last field, the
\* amount the last field before it that is not empty, and the description,
\* between two \s+, needs the amount to be the third field or later.
AmountBeforeLast(line) ==
    LET filled == { a \in 1..(Len(line) - 1) : line[a] # EmptyField }
    IN IF filled = { } THEN 0 ELSE CHOOSE a \in filled : \A b \in filled : b <= a

Groups(line, a) ==
    [ date |-> line[1],
      description |-> SubSeq(line, 2, a - 1),
      amount |-> line[a],
      total |-> SubSeq(line, a + 1, Len(line)) ]

NoMatch == << >>

TailMatch(line) ==
    /\ Len(line) >= 4
    /\ IsDate(line[1])
    /\ AmountBeforeLast(line) >= 3
    /\ IsAmount(line[AmountBeforeLast(line)])

Pattern1(line) ==
    IF TailMatch(line) /\ IsShortTotal(line[Len(line)])
    THEN Some(Groups(line, AmountBeforeLast(line)))
    ELSE NoMatch

Pattern2(line) ==
    IF TailMatch(line) /\ IsAmount(line[Len(line)])
    THEN Some(Groups(line, AmountBeforeLast(line)))
    ELSE NoMatch

\* Pattern 3 ends with \s+(.*?)$ and its description is lazy: the amount is the
\* first amount field from the third on that has a space after it.
Pattern3(line) ==
    LET as == { a \in 3..(Len(line) - 1) : IsAmount(line[a]) }
    IN IF Len(line) >= 1 /\ IsDate(line[1]) /\ as # { }
       THEN Some(Groups(line, CHOOSE a \in as : \A b \in as : a <= b))
       ELSE NoMatch

\* match = pattern1_match or pattern2_match or pattern3_match
Match(line) ==
    IF Pattern1(line) # NoMatch THEN Pattern1(line)
    ELSE IF Pattern2(line) # NoMatch THEN Pattern2(line)
    ELSE Pattern3(line)

\* Line 253 skipping blank lines only.
IsNoise_BlankOnly(line) == Strip(line) = << >>

\* Line 253: blank lines, "Prepared by" lines and "-" lines are skipped.
IsNoise(line) ==
    \/ Strip(line) = << >>
    \/ Contains(line, << W("Prepared"), W("by") >>)
    \/ Strip(line) = << W("-") >>

(***************************************************************************)
(* The fields of a matched line, the running total and the type.           *)
(***************************************************************************)
\* total_str = match.group(4).strip() if match.group(4) else None
TotalStr(g) == IF Strip(g.total) = << >> THEN None ELSE Some(Strip(g.total))

\* Lines 270-275: a leading "." gets a "0" before it, the commas are removed.
NormalTotal(total_str) ==
    IF total_str = None THEN None
    ELSE LET s == total_str[1]
             t == IF s[1][1] = "." THEN << << "0" >> \o s[1] >> \o Tail(s) ELSE s
         IN Some([ i \in DOMAIN t |-> RemoveCommas(t[i]) ])

\* float(amount), amount = match.group(3).replace(',', '')
AmountOf(g) == ParseFloat(RemoveCommas(g.amount))[1]

\* '0.00' and '0'
ZeroTexts == { << << "0", ".", "0", "0" >> >>, << << "0" >> >> }

\* Lines 278-286 read as a sign test only: every negative amount is a Credit.
TransactionType_SignFirst(description, amount) ==
    IF amount < 0 THEN "Credit"
    ELSE IF Contains(description, RebateText) THEN "Rebate"
    ELSE IF Contains(description, << W("Revesal") >>)
              \/ Contains(description, << W("Reversal") >>) THEN "Reversal"
    ELSE "Invoice"

\* Lines 278-286.
TransactionType(description, amount) ==
    LET by_text == IF Contains(description, << W("Revesal") >>)
                        \/ Contains(description, << W("Reversal") >>) THEN "Reversal"
                   ELSE IF amount < 0 THEN "Credit"
                   ELSE "Invoice"
    IN IF Contains(description, RebateText) THEN "Rebate" ELSE by_text

\* Lines 288-289 with the sum formatted to two decimals ("0.00" for a zero sum).
RepairedTotal_TwoDecimals(total, running_total, amount) ==
    IF (total = None \/ total[1] \in ZeroTexts) /\ running_total # None
    THEN LET v == running_total[1] + amount
             a == IF v < 0 THEN -v ELSE v
         IN Some(<< (IF v < 0 THEN << "-" >> ELSE << >>) \o DigitsOf(a \div 100)
                      \o << ".", DigitChar((a % 100) \div 10), DigitChar(a % 10) >> >>)
    ELSE total

\* Lines 288-289: total = str(running_total + float(amount))
RepairedTotal(total, running_total, amount) ==
    IF (total = None \/ total[1] \in ZeroTexts) /\ running_total # None
    THEN Some(StrFloat(running_total[1] + amount))
    ELSE total

\* Lines 291-302 with the total added to the running total instead of replacing it.
NextRunningTotal_Added(total, running_total, amount) ==
    IF total # None /\ Chars(total[1]) # << >> /\ total[1] \notin ZeroTexts
          /\ FloatOf(total[1]) # None
    THEN IF running_total # None THEN Some(running_total[1] + amount)
         ELSE FloatOf(total[1])
    ELSE running_total

\* Lines 291-302: the running total after the line.
NextRunningTotal(total, running_total, amount) ==
    IF total # None /\ Chars(total[1]) # << >> /\ total[1] \notin ZeroTexts
    THEN IF FloatOf(total[1]) # None THEN FloatOf(total[1])
         ELSE IF FirstNumber(total[1]) # None THEN FirstNumber(total[1])
         ELSE IF running_total # None THEN Some(running_total[1] + amount)
         ELSE Some(amount)
    ELSE running_total

\* Line 309 without its fallback to the amount.
RecordTotal_NoFallback(running_total, amount) == running_total

\* Line 309: running_total if running_total is not None else float(amount)
RecordTotal(running_total, amount) ==
    IF running_total # None THEN running_total ELSE Some(amount)

(***************************************************************************)
(* Strings compared as Python compares them, character by character.       *)
(***************************************************************************)
UpperCase ==
    << "A", "B", "C", "D", "E", "F", "G", "H", "I", "J", "K", "L", "M",
       "N", "O", "P", "Q", "R", "S", "T", "U", "V", "W", "X", "Y", "Z" >>

LowerCase ==
    << "a", "b", "c", "d", "e", "f", "g", "h", "i", "j", "k", "l", "m",
       "n", "o", "p", "q", "r", "s", "t", "u", "v", "w", "x", "y", "z" >>

\* The characters the compared strings are written with, by code point.
CharOrder ==
    << " ", "*", "-", ".", "/", "0", "1", "2", "3", "4", "5", "6", "7", "8", "9",
       ":", "?" >> \o UpperCase \o << "[", "\\", "]", "_" >> \o LowerCase

\* ord(c), up to an increasing map
Ord(c) == CHOOSE i \in DOMAIN CharOrder : CharOrder[i] = c

\* c.lower()
Lower(c) ==
    IF \E i \in DOMAIN UpperCase : UpperCase[i] = c
    THEN LowerCase[CHOOSE i \in DOMAIN UpperCase : UpperCase[i] = c]
    ELSE c

RECURSIVE StrLess(_, _)
\* a < b of two strings given by their characters
StrLess(a, b) ==
    IF b = << >> THEN FALSE
    ELSE IF a = << >> THEN TRUE
    ELSE IF a[1] = b[1] THEN StrLess(Tail(a), Tail(b))
    ELSE Ord(a[1]) < Ord(b[1])

(***************************************************************************)
(* The table of process_single_pdf (lines 329-340).                        *)
(***************************************************************************)
\* %b, matched without regard to case
Months ==
    << << "j", "a", "n" >>, << "f", "e", "b" >>, << "m", "a", "r" >>,
       << "a", "p", "r" >>, << "m", "a", "y" >>, << "j", "u", "n" >>,
       << "j", "u", "l" >>, << "a", "u", "g" >>, << "s", "e", "p" >>,
       << "o", "c", "t" >>, << "n", "o", "v" >>, << "d", "e", "c" >> >>

MonthOf(abbr) ==
    LET low == [ i \in DOMAIN abbr |-> Lower(abbr[i]) ]
        hits == { m \in DOMAIN Months : Months[m] = low }
    IN IF hits = { } THEN 0 ELSE CHOOSE m \in hits : TRUE

DaysIn(month, year) ==
    IF month = 2
    THEN IF year % 4 = 0 /\ (year % 100 # 0 \/ year % 400 = 0) THEN 29 ELSE 28
    ELSE IF month \in { 4, 6, 9, 11 } THEN 30 ELSE 31

\* The years that lie wholly inside the range of a pandas Timestamp.
FirstYear == 1678

LastYear == 2261

\* pd.to_datetime(s, format='%d-%b-%Y', errors='coerce') of one date field of
\* the shape \d{1,2}-\w{3}-\d{4}: the calendar date, None for NaT.
ToDatetime(f) ==
    LET n == Len(f) - 9
        day == DigitsValue(SubSeq(f, 1, n))
        month == MonthOf(SubSeq(f, n + 2, n + 4))
        year == DigitsValue(SubSeq(f, n + 6, n + 9))
    IN IF /\ month # 0
          /\ year >= FirstYear /\ year <= LastYear
          /\ day >= 1 /\ day <= DaysIn(month, year)
       THEN Some([ year |-> year, month |-> month, day |-> day ])
       ELSE None

\* %b of strftime
MonthNames ==
    << << "J", "a", "n" >>, << "F", "e", "b" >>, << "M", "a", "r" >>,
       << "A", "p", "r" >>, << "M", "a", "y" >>, << "J", "u", "n" >>,
       << "J", "u", "l" >>, << "A", "u", "g" >>, << "S", "e", "p" >>,
       << "O", "c", "t" >>, << "N", "o", "v" >>, << "D", "e", "c" >> >>

\* Series.dt.strftime('%d-%b-%Y') of one value: None (NaN) for NaT
Strftime(d) ==
    IF d = None THEN None
    ELSE Some((IF d[1].day < 10 THEN << "0" >> ELSE << >>) \o DigitsOf(d[1].day)
                \o << "-" >> \o MonthNames[d[1].month] \o << "-" >>
                \o DigitsOf(d[1].year))

\* df[column_order]: the five columns of line 332
SelectColumns(record) ==
    [ Store |-> record.Store,
      Date |-> record.Date,
      Transaction_Type |-> record.Transaction_Type,
      Description |-> record.Description,
      Amount |-> record.Amount ]

\* The day count a date is ordered by.
DateKey(d) == d[1].year * 10000 + d[1].month * 100 + d[1].day

\* Line 337 with the dates compared as the strings they were read as.
RowLess_ByText(a, b) ==
    \/ StrLess(Chars(a.Store), Chars(b.Store))
    \/ /\ a.Store = b.Store
       /\ StrLess(a.Date, b.Date)

\* The order of df.sort_values(['Store', 'Date']) on the converted dates: by
\* store name, then by date, NaT after every date.
RowLess(a, b) ==
    \/ StrLess(Chars(a.Store), Chars(b.Store))
    \/ /\ a.Store = b.Store
       /\ ToDatetime(a.Date) # None
       /\ \/ ToDatetime(b.Date) = None
          \/ /\ ToDatetime(b.Date) # None
             /\ DateKey(ToDatetime(a.Date)) < DateKey(ToDatetime(b.Date))

\* row put into the sorted rows after every row that is not greater than it
InsertRow(rows, row) ==
    LET greater == { i \in DOMAIN rows : RowLess(row, rows[i]) }
        k == IF greater = { } THEN Len(rows) + 1
             ELSE CHOOSE i \in greater : \A j \in greater : i <= j
    IN SubSeq(rows, 1, k - 1) \o << row >> \o SubSeq(rows, k, Len(rows))

RECURSIVE SortValues(_)
\* df.sort_values(['Store', 'Date']), rows that compare equal keeping their order
SortValues(rows) ==
    IF rows = << >> THEN << >>
    ELSE InsertRow(SortValues(SubSeq(rows, 1, Len(rows) - 1)), rows[Len(rows)])

\* Lines 330-338: the columns picked, the rows sorted on the converted dates,
\* the dates written back with strftime.
Table(all_transactions) ==
    LET picked == [ i \in DOMAIN all_transactions |-> SelectColumns(all_transactions[i]) ]
        sorted == SortValues(picked)
    IN [ i \in DOMAIN sorted |->
           [ sorted[i] EXCEPT !.Date = Strftime(ToDatetime(sorted[i].Date)) ] ]

\* The failure messages: their text before the file name, and the file name.
Failure(kind, pdf_path) == [ kind |-> kind, file |-> pdf_path ]

\* Lines 329-342 returning the table whether or not it has a row.
TableOrFailure_Always(pdf_path, all_transactions) ==
    [ df |-> Some(Table(all_transactions)), error |-> None ]

\* Lines 329-342: (df, None), or (None, "No transactions found in ...")
TableOrFailure(pdf_path, all_transactions) ==
    IF all_transactions # << >>
    THEN [ df |-> Some(Table(all_transactions)), error |-> None ]
    ELSE [ df |-> None, error |-> Some(Failure("No transactions found in", pdf_path)) ]

(***************************************************************************)
(* Input documents.  pdf.pages is a sequence of page texts.                *)
(***************************************************************************)
PageBreak == << W("\f") >>

DocLines == { LineMarker, LineHeaderA, LineTableStart, LineTableEnd, LineFoo }

DocItems == DocLines \cup { PageBreak }

RECURSIVE PagesOf(_)
\* The page texts of a stream of lines and page breaks.
PagesOf(items) ==
    LET k == Find(items, <<PageBreak>>)
    IN IF k = -1 THEN << Join(items) >>
       ELSE << Join(SubSeq(items, 1, k)) >> \o PagesOf(SubSeq(items, k + 2, Len(items)))

\* Every document of at most MaxDocItems lines and page breaks.
SmallDocs ==
    { PagesOf(s) : s \in UNION { [1..n -> DocItems] : n \in 0..MaxDocItems } }

\* REMITTANCE, then two stores, each with its header, its "Date Amount Total"
\* line, its transaction lines and its "TOTAL AS PER STATEMENT" line.
TwoStoreLines(txA, txB) ==
    << LineMarker, LineHeaderA, LineTableStart >> \o txA
        \o << LineTableEnd, LineHeaderB, LineTableStart >> \o txB
        \o << LineTableEnd >>

\* items with a page break after the k-th of them (none for k = 0), the new
\* page starting with the REMITTANCE heading again when heading is TRUE.
BreakAt(items, k, heading) ==
    IF k = 0 THEN items
    ELSE SubSeq(items, 1, k) \o << PageBreak >>
            \o (IF heading THEN << LineMarker >> ELSE << >>)
            \o SubSeq(items, k + 1, Len(items))

\* The two-store statements: on one page or broken in two at any line, with or
\* without the heading on the second page, with or without a contents line
\* naming StoreB above the REMITTANCE heading.
TwoStoreDocs ==
    { PagesOf((IF contents THEN << LineHeaderB >> ELSE << >>) \o BreakAt(TwoStoreLines(txA, << LineBar >>), k, heading)) :
        txA \in { << LineFoo >>, << LineFoo, LineBar >> },
        k \in 0..7,
        heading \in BOOLEAN,
        contents \in BOOLEAN }

\* One store whose table is followed by further text, and by a second table.
TrailingDocs ==
    { PagesOf(<< LineMarker, LineHeaderA, LineTableStart, LineFoo, LineTableEnd >> \o rest) :
        rest \in { << LineBar >>,
                   << LineBar, LineHeaderB >>,
                   << LineTableStart, LineBar >>,
                   << LineBar, LineTableStart, LineBar, LineHeaderEmpty, LineTableStart, LineFoo >> } }

\* The header of StoreA twice, with or without StoreB between the two, the
\* second time with no table, an empty table or a table with lines.
RepeatedDocs ==
    { PagesOf(<< LineMarker, LineHeaderA, LineTableStart >> \o first \o between
                 \o << LineHeaderA >> \o second) :
        first \in { << LineFoo >>, << LineFoo, LineBar >> },
        between \in { << >>, << LineHeaderB, LineTableStart, LineBar >> },
        second \in { << >>, << LineTableStart >>, << LineTableStart, LineBar >>,
                     << LineTableStart, LineFoo, LineTableEnd >> } }

Documents == SmallDocs \cup TwoStoreDocs \cup TrailingDocs \cup RepeatedDocs

(***************************************************************************)
(* Input section bodies of the parser.                                     *)
(***************************************************************************)
BodyLines ==
    { LineFoo, LineBar, LineBaz, LineQux, LineSale, LineRevesal, LineFee,
      LineRebate, LineJunk, LineDebris, LineRefund, LinePrepared, LinePage }

\* Every body of 1 to MaxBodyLines of these lines.
Bodies ==
    { Join(ls) : ls \in UNION { [1..n -> BodyLines] : n \in 1..MaxBodyLines } }

\* "" and " "
LineBlank == << >>

LineSpace == << EmptyField, EmptyField >>

\* "-"
LineDash == << W("-") >>

\* "01-Jan-2024 Prepared by 5.00 5.00"
LinePreparedBy ==
    << Date01, W("Prepared"), W("by"), <<"5",".","0","0">>, <<"5",".","0","0">> >>

NoisyLines ==
    { LineFoo, LineBar, LineQux, LineJunk,
      LineBlank, LineSpace, LineDash, LinePrepared, LinePreparedBy, LinePage }

\* Every body of 1 to MaxBodyLines of these lines.
NoisyBodies ==
    { Join(ls) : ls \in UNION { [1..n -> NoisyLines] : n \in 1..MaxBodyLines } }

(***************************************************************************)
(* Input statements of process_single_pdf: store names written character   *)
(* by character, so that the sort compares them as Python does.            *)
(***************************************************************************)
\* Items of an arbitrary statement, after its REMITTANCE heading.
MaxStatementItems == 4

Alpha == << << "A", "l", "p", "h", "a" >> >>

Beta == << << "B", "e", "t", "a" >> >>

LineHeaderAlpha == << W("Acme"), W("t/a"), W("-") >> \o Alpha

LineHeaderBeta == << W("Acme"), W("t/a"), W("-") >> \o Beta

DateFeb01 == << "0", "1", "-", "F", "e", "b", "-", "2", "0", "2", "4" >>

DateBad == << "9", "9", "-", "F", "o", "o", "-", "2", "0", "2", "4" >>

Date5 == << "5", "-", "J", "a", "n", "-", "2", "0", "2", "4" >>

\* "01-Feb-2024 Gum 30.00 130.00"
LineGum == << DateFeb01, W("Gum"), <<"3","0",".","0","0">>, <<"1","3","0",".","0","0">> >>

\* "99-Foo-2024 Odd 5.00 5.00"
LineOdd == << DateBad, W("Odd"), <<"5",".","0","0">>, <<"5",".","0","0">> >>

\* "5-Jan-2024 Tea 7.00 7.00"
LineTea == << Date5, W("Tea"), <<"7",".","0","0">>, <<"7",".","0","0">> >>

\* An item is a store header with its "Date Amount Total" line, or one line.
StatementItems ==
    { << LineHeaderAlpha, LineTableStart >>, << LineHeaderBeta, LineTableStart >>,
      << LineGum >>, << LineBar >>, << LineOdd >>, << LinePage >> }

RECURSIVE Flatten(_)
Flatten(items) == IF items = << >> THEN << >> ELSE items[1] \o Flatten(Tail(items))

\* One page: the REMITTANCE heading, then at most MaxStatementItems items.
SmallStatements ==
    { << Join(<< LineMarker >> \o Flatten(s)) >> :
        s \in UNION { [1..n -> StatementItems] : n \in 0..MaxStatementItems } }

\* Two stores with dates out of order, a date with a one-digit day, a store
\* closed by its "TOTAL AS PER STATEMENT" line; a statement without the
\* REMITTANCE heading; two headers, one with no "Date Amount Total" line after
\* it and one with nothing after that line; a PDF with no page, and one with an
\* empty page.
OtherStatements ==
    { << Join(<< LineMarker, LineHeaderBeta, LineTableStart, LineGum, LineTea, LineTableEnd,
                 LineHeaderAlpha, LineTableStart, LineOdd, LineGum, LineBar, LineTableEnd >>) >>,
      << Join(<< LineMarker, LineHeaderBeta, LineTableStart, LineBar >>),
         Join(<< LineMarker, LineHeaderAlpha, LineTableStart, LineGum, LineTea, LineFoo >>) >>,
      << Join(<< LineHeaderAlpha, LineTableStart, LineGum >>) >>,
      << Join(<< LineMarker, LineHeaderAlpha, LineGum, LineHeaderBeta, LineTableStart >>) >>,
      << >>,
      << << >> >> }

Statements == SmallStatements \cup OtherStatements

\* A PDF file: Some(pages), or None for a file pdfplumber.open cannot read.
PdfFiles == { None } \cup { Some(d) : d \in Statements }

\* "a.pdf"
FileA == << "a", ".", "p", "d", "f" >>

(***************************************************************************)
(* Input lists of process_pdfs_to_excel: PDFs of one folder, so with file   *)
(* names that differ, file names written character by character.           *)
(***************************************************************************)
\* PDFs of an arbitrary list.
MaxPdfs == 2

\* "Summary.pdf"
FileSummary == << "S", "u", "m", "m", "a", "r", "y", ".", "p", "d", "f" >>

\* "[" and thirty "x": 31 characters
LongStem == << "[" >> \o [ i \in 1..30 |-> "x" ]

\* "[xx...xa.pdf" and "[xx...xb.pdf", alike in their first 31 characters
FileLongA == LongStem \o << "a", ".", "p", "d", "f" >>

FileLongB == LongStem \o << "b", ".", "p", "d", "f" >>

FileNames == { FileSummary, FileLongA, FileLongB }

\* A file that cannot be read, a statement of one store whose first line has
\* the total 0.00, one of two stores, one with no store section and one with
\* no transaction line.
BookFiles ==
    { None,
      Some(<< Join(<< LineMarker, LineHeaderAlpha, LineTableStart, LineBar, LineGum >>) >>),
      Some(<< Join(<< LineMarker, LineHeaderBeta, LineTableStart, LineGum,
                      LineHeaderAlpha, LineTableStart, LineBar >>) >>),
      Some(<< LinePage >>),
      Some(<< Join(<< LineMarker, LineHeaderAlpha, LineTableStart, LinePage >>) >>) }

\* Every list of 1 to MaxPdfs PDFs whose file names differ.
PdfLists ==
    { ps \in UNION { [1..n -> [ name : FileNames, file : BookFiles ]] : n \in 1..MaxPdfs } :
        \A i, j \in DOMAIN ps : i # j => ps[i].name # ps[j].name }

(***************************************************************************)
(* State.                                                                  *)
(***************************************************************************)
VARIABLES
    pc,               \* where the control is
    pdf_pages,        \* extract_store_sections: the page texts of the PDF
    page_num,         \* pages already scanned
    text,             \* the text of the page being scanned
    lines,            \* its lines
    line_idx,         \* the line the inner loop is at
    store_sections,   \* the result: store name -> joined body
    current_store,
    store_content,
    capture_mode,
    seen,             \* history: what the scan has passed so far
    step,             \* history: what the last loop iteration saw and did
    store_name,       \* parse_store_transactions: its first argument
    body,             \* its second argument, store_content
    body_lines,       \* lines
    body_idx,         \* the line the loop is at
    running_total,
    transactions,
    parsed,           \* history: what the last iteration of the parser saw
    pdf_path,         \* process_single_pdf: the file name of its argument
    pdf_file,         \* what pdfplumber.open finds there
    section_idx,      \* the item of store_sections.items() the loop is at
    all_transactions,
    result,           \* the pair (df, error message) it returns
    pdf_paths,        \* process_pdfs_to_excel: its first argument
    pdf_idx,          \* the PDF the loop is at
    successful_files,
    failed_files,
    sheets,           \* the to_excel calls on the writer, in order
    returned,         \* what process_pdfs_to_excel returns
    outputs,          \* history: what each call of process_single_pdf produced
    button_state,     \* App: the state of process_button
    is_running,       \* self._is_running
    threads,          \* the worker threads process_files started, in order
    after_queue,      \* the callbacks handed to self.after, not yet run
    temp_pdf_folder,  \* EmailProcessor.temp_pdf_folder
    folders,          \* the temporary folders that exist on disk
    made,             \* how many folders tempfile.mkdtemp has made
    dialog,           \* the dialog shown last
    completed         \* history: the calls of process_complete, in order

seg_vars == << pdf_pages, page_num, text, lines, line_idx, store_sections,
               current_store, store_content, capture_mode, seen, step >>

parse_vars == << store_name, body, body_lines, body_idx, running_total, transactions,
                 parsed >>

doc_vars == << pdf_path, pdf_file, section_idx, all_transactions, result >>

book_vars ==
    << pdf_paths, pdf_idx, successful_files, failed_files, sheets, returned, outputs >>

run_vars ==
    << button_state, is_running, threads, after_queue, temp_pdf_folder, folders, made,
       dialog, completed >>

vars == << pc, seg_vars, parse_vars, doc_vars, book_vars, run_vars >>

\* seen.remittance: a line containing "REMITTANCE" has been scanned (the running
\*   flag of the whole line stream, never cleared).
\* seen.table: a "Date Amount Total" line has been scanned under the current
\*   store, after its header.
\* seen.total: a "TOTAL AS PER STATEMENT" line has been scanned under the current
\*   store, after its header.
\* seen.closed: as seen.total, and no "Date Amount Total" line was scanned since.
\* seen.last: for each store name, the lines captured so far under the last
\*   header taken for that name.
\* seen.kept: for each store name, the lines captured so far under the last
\*   header taken for that name under which a line was captured.
NothingSeen ==
    [ remittance |-> FALSE, table |-> FALSE, total |-> FALSE, closed |-> FALSE,
      last |-> << >>, kept |-> << >> ]

\* d with the lines written under the name, an old name keeping its place
Noted(d, name, content) ==
    IF \E k \in DOMAIN d : d[k].key = name
    THEN [ k \in DOMAIN d |->
             IF d[k].key = name THEN [ key |-> name, value |-> content ] ELSE d[k] ]
    ELSE Append(d, [ key |-> name, value |-> content ])

Observe(s, line, header, store, content) ==
    [ remittance |-> s.remittance \/ Contains(line, Marker),
      table |-> IF Truthy(store) /\ Contains(line, TableStart) THEN TRUE
                ELSE IF header THEN FALSE ELSE s.table,
      total |-> IF Truthy(store) /\ Contains(line, TableEnd) THEN TRUE
                ELSE IF header THEN FALSE ELSE s.total,
      closed |-> IF Truthy(store) /\ Contains(line, TableStart) THEN FALSE
                 ELSE IF Truthy(store) /\ Contains(line, TableEnd) THEN TRUE
                 ELSE IF header THEN FALSE ELSE s.closed,
      last |-> IF Truthy(store) THEN Noted(s.last, store[1], content) ELSE s.last,
      kept |-> IF Truthy(store) /\ content # << >>
               THEN Noted(s.kept, store[1], content)
               ELSE s.kept ]

\* step.done: an iteration has run; line: its line; matched: the line matches the
\* header pattern; boundary: it was taken as a store header; captured: it was
\* appended to store_content; seen: the history before it; store, content, mode,
\* sections: current_store, store_content, capture_mode, store_sections before it.
NoStep == [ done |-> FALSE, line |-> << >>, matched |-> FALSE, boundary |-> FALSE,
            captured |-> FALSE, seen |-> NothingSeen, store |-> None, content |-> << >>,
            mode |-> FALSE, sections |-> << >> ]

\* parsed.done: an iteration has run; line: its line; matched: a pattern matched
\* and a record was appended; total: the total field after lines 270-275;
\* amount: float(amount); before: running_total before the line.
NotParsed == [ done |-> FALSE, line |-> << >>, matched |-> FALSE, total |-> None,
               amount |-> 0, before |-> None ]

SegmentIdle ==
    /\ pdf_pages = << >>
    /\ page_num = 0
    /\ text = << >>
    /\ lines = << >>
    /\ line_idx = 0
    /\ store_sections = << >>
    /\ current_store = None
    /\ store_content = << >>
    /\ capture_mode = FALSE
    /\ seen = NothingSeen
    /\ step = NoStep

ParseIdle ==
    /\ store_name = << >>
    /\ body = << >>
    /\ body_lines = << >>
    /\ body_idx = 0
    /\ running_total = None
    /\ transactions = << >>
    /\ parsed = NotParsed

\* Nothing returned yet.
NoResult == [ df |-> None, error |-> None ]

DocIdle ==
    /\ pdf_path = << >>
    /\ pdf_file = None
    /\ section_idx = 0
    /\ all_transactions = << >>
    /\ result = NoResult

BookIdle ==
    /\ pdf_paths = << >>
    /\ pdf_idx = 0
    /\ successful_files = << >>
    /\ failed_files = << >>
    /\ sheets = << >>
    /\ returned = None
    /\ outputs = << >>

\* Lines 20, 454 and 498-499: the application before any click.
RunIdle ==
    /\ button_state = "normal"
    /\ is_running = FALSE
    /\ threads = << >>
    /\ after_queue = << >>
    /\ temp_pdf_folder = None
    /\ folders = { }
    /\ made = 0
    /\ dialog = "none"
    /\ completed = << >>

(***************************************************************************)
(* extract_store_sections                                                  *)
(***************************************************************************)
SegmentInit ==
    /\ pc = "pages"
    /\ pdf_pages \in Documents
    /\ page_num = 0
    /\ text = << >>
    /\ lines = << >>
    /\ line_idx = 0
    /\ store_sections = << >>
    /\ current_store = None
    /\ store_content = << >>
    /\ capture_mode = FALSE
    /\ seen = NothingSeen
    /\ step = NoStep
    /\ ParseIdle
    /\ DocIdle
    /\ BookIdle
    /\ RunIdle

\* for page_num, page in enumerate(pdf.pages): text = ...; lines = text.split('\n')
OpenPage ==
    /\ pc = "pages"
    /\ page_num < Len(pdf_pages)
    /\ text' = pdf_pages[page_num + 1]
    /\ lines' = Split(pdf_pages[page_num + 1])
    /\ line_idx' = 1
    /\ pc' = "lines"
    /\ UNCHANGED << pdf_pages, page_num, store_sections, current_store, store_content,
                    capture_mode, seen, step >>
    /\ UNCHANGED << parse_vars, doc_vars, book_vars, run_vars >>

\* Lines 218-219 without the test of the buffer: an empty body is stored too.
Finalized_Always(sections, store, content) ==
    IF Truthy(store) THEN DictSet(sections, store[1], Join(content)) ELSE sections

\* Lines 218-219 storing the body into a dict of its own.
Finalized_Fresh(sections, store, content) ==
    IF Truthy(store) /\ content # << >>
    THEN << [ key |-> store[1], value |-> Join(content) ] >>
    ELSE sections

\* if current_store and store_content: store_sections[current_store] = '\n'.join(store_content)
Finalized(sections, store, content) ==
    IF Truthy(store) /\ content # << >>
    THEN DictSet(sections, store[1], Join(content))
    ELSE sections

\* A header that leaves the capture mode as it was.
ModeAtHeader_Kept(header, mode) == mode

\* capture_mode = False at a store header (line 223)
ModeAtHeader(header, mode) == IF header THEN FALSE ELSE mode

\* Lines 226-236 without the "TOTAL AS PER STATEMENT" test of lines 231-232.
CaptureStep_NoTableEnd(store, mode, line) ==
    IF Truthy(store) /\ Contains(line, TableStart)
    THEN [ mode |-> TRUE, append |-> FALSE ]
    ELSE [ mode |-> mode, append |-> Truthy(store) /\ mode ]

\* Lines 226-236: the capture mode after the line, and whether it is appended.
CaptureStep(store, mode, line) ==
    IF Truthy(store) /\ Contains(line, TableStart)
    THEN [ mode |-> TRUE, append |-> FALSE ]
    ELSE LET m == IF Truthy(store) /\ Contains(line, TableEnd) THEN FALSE ELSE mode
         IN [ mode |-> m, append |-> Truthy(store) /\ m ]

\* One iteration of "for line in lines".
ScanLine ==
    /\ pc = "lines"
    /\ LET line == lines[line_idx]
           header == IsStoreHeader(text, line)
           store == IF header THEN Some(HeaderName(line)) ELSE current_store
           content == IF header THEN << >> ELSE store_content
           mode == ModeAtHeader(header, capture_mode)
           cap == CaptureStep(store, mode, line)
       IN /\ store_sections' = IF header
                               THEN Finalized(store_sections, current_store, store_content)
                               ELSE store_sections
          /\ current_store' = store
          /\ store_content' = IF cap.append THEN Append(content, line) ELSE content
          /\ capture_mode' = cap.mode
          /\ seen' = Observe(seen, line, header, store,
                             IF cap.append THEN Append(content, line) ELSE content)
          /\ step' = [ done |-> TRUE,
                       line |-> line,
                       matched |-> HeaderMatch(line),
                       boundary |-> header,
                       captured |-> cap.append,
                       seen |-> seen,
                       store |-> current_store,
                       content |-> store_content,
                       mode |-> capture_mode,
                       sections |-> store_sections ]
    /\ IF line_idx < Len(lines)
       THEN /\ line_idx' = line_idx + 1
            /\ UNCHANGED << pc, page_num >>
       ELSE /\ line_idx' = 0
            /\ page_num' = page_num + 1
            /\ pc' = "pages"
    /\ UNCHANGED << pdf_pages, text, lines >>
    /\ UNCHANGED << parse_vars, doc_vars, book_vars, run_vars >>

\* Lines 238-242: add the last store and return.
AddLastStore ==
    /\ pc = "pages"
    /\ page_num = Len(pdf_pages)
    /\ store_sections' = Finalized(store_sections, current_store, store_content)
    /\ pc' = "segmented"
    /\ UNCHANGED << pdf_pages, page_num, text, lines, line_idx, current_store,
                    store_content, capture_mode, seen, step >>
    /\ UNCHANGED << parse_vars, doc_vars, book_vars, run_vars >>

SegmentNext == OpenPage \/ ScanLine \/ AddLastStore

SpecSegment == SegmentInit /\ [][SegmentNext]_vars

(***************************************************************************)
(* parse_store_transactions                                                *)
(***************************************************************************)
\* Lines 247-250, for any store name and body.
ParseInit ==
    /\ pc = "parse"
    /\ store_name = << W("StoreA") >>
    /\ body \in Bodies
    /\ body_lines = Split(body)
    /\ body_idx = 1
    /\ running_total = None
    /\ transactions = << >>
    /\ parsed = NotParsed
    /\ SegmentIdle
    /\ DocIdle
    /\ BookIdle
    /\ RunIdle

\* Lines 264-311: the record of a matched line and the running total after it.
Transaction(name, g, before) ==
    LET amount == AmountOf(g)
        description == Strip(g.description)
        total == RepairedTotal(NormalTotal(TotalStr(g)), before, amount)
        after == NextRunningTotal(total, before, amount)
    IN [ running_total |-> after,
         record |-> [ Store |-> name,
                      Date |-> g.date,
                      Description |-> description,
                      Amount |-> amount,
                      Running_Total |-> RecordTotal(after, amount),
                      Transaction_Type |-> TransactionType(description, amount) ] ]

\* One iteration of "for line in lines" (lines 252-311).
ParseLine ==
    /\ pc = "parse"
    /\ body_idx <= Len(body_lines)
    /\ LET line == body_lines[body_idx]
           match == IF IsNoise(line) THEN NoMatch ELSE Match(line)
       IN IF match = NoMatch
          THEN /\ parsed' = [ NotParsed EXCEPT !.done = TRUE, !.line = line,
                                               !.before = running_total ]
               /\ UNCHANGED << running_total, transactions >>
          ELSE LET t == Transaction(store_name, match[1], running_total)
               IN /\ running_total' = t.running_total
                  /\ transactions' = Append(transactions, t.record)
                  /\ parsed' = [ done |-> TRUE, line |-> line, matched |-> TRUE,
                                 total |-> NormalTotal(TotalStr(match[1])),
                                 amount |-> AmountOf(match[1]),
                                 before |-> running_total ]
    /\ body_idx' = body_idx + 1
    /\ UNCHANGED << pc, store_name, body, body_lines >>
    /\ UNCHANGED << seg_vars, doc_vars, book_vars, run_vars >>

\* return transactions
ParseReturn ==
    /\ pc = "parse"
    /\ body_idx > Len(body_lines)
    /\ pc' = "parsed"
    /\ UNCHANGED << parse_vars, doc_vars, book_vars, run_vars >>
    /\ UNCHANGED seg_vars

ParseNext == ParseLine \/ ParseReturn

SpecParse == ParseInit /\ [][ParseNext]_vars

RECURSIVE ParseFrom(_, _, _)
\* The records lines 252-311 append for the lines ls, the running total being
\* before when the first of them is read.
ParseFrom(name, ls, before) ==
    IF ls = << >> THEN << >>
    ELSE LET match == IF IsNoise(ls[1]) THEN NoMatch ELSE Match(ls[1])
         IN IF match = NoMatch THEN ParseFrom(name, Tail(ls), before)
            ELSE << Transaction(name, match[1], before).record >>
                    \o ParseFrom(name, Tail(ls),
                                 Transaction(name, match[1], before).running_total)

\* parse_store_transactions(store_name, store_content) as a function
ParseAll(name, content) == ParseFrom(name, Split(content), None)

\* Bodies with blank lines, "Prepared by" lines, "-" lines and lines that match
\* no pattern among the transaction lines.
NoisyInit ==
    /\ pc = "parse"
    /\ store_name = << W("StoreA") >>
    /\ body \in NoisyBodies
    /\ body_lines = Split(body)
    /\ body_idx = 1
    /\ running_total = None
    /\ transactions = << >>
    /\ parsed = NotParsed
    /\ SegmentIdle
    /\ DocIdle
    /\ BookIdle
    /\ RunIdle

SpecNoisy == NoisyInit /\ [][ParseNext]_vars

(***************************************************************************)
(* process_single_pdf                                                      *)
(***************************************************************************)
DocumentInit ==
    /\ pc = "open"
    /\ pdf_path = FileA
    /\ pdf_file \in PdfFiles
    /\ section_idx = 0
    /\ all_transactions = << >>
    /\ result = NoResult
    /\ SegmentIdle
    /\ ParseIdle
    /\ BookIdle
    /\ RunIdle

\* Lines 204-209: the locals of extract_store_sections, then pdfplumber.open.
\* An exception raised there reaches the except clause of line 344.
OpenPdf ==
    /\ pc = "open"
    /\ pdf_pages' = IF pdf_file = None THEN << >> ELSE pdf_file[1]
    /\ page_num' = 0
    /\ text' = << >>
    /\ lines' = << >>
    /\ line_idx' = 0
    /\ store_sections' = << >>
    /\ current_store' = None
    /\ store_content' = << >>
    /\ capture_mode' = FALSE
    /\ seen' = NothingSeen
    /\ step' = NoStep
    /\ IF pdf_file = None
       THEN /\ result' = [ df |-> None,
                           error |-> Some(Failure("Error processing", pdf_path)) ]
            /\ pc' = "returned"
       ELSE /\ pc' = "pages"
            /\ UNCHANGED result
    /\ UNCHANGED << pdf_path, pdf_file, section_idx, all_transactions >>
    /\ UNCHANGED << parse_vars, book_vars, run_vars >>

\* Lines 322-325: no store section is the first failure.
CheckSections ==
    /\ pc = "segmented"
    /\ IF store_sections = << >>
       THEN /\ result' = [ df |-> None,
                           error |-> Some(Failure("No store sections found in", pdf_path)) ]
            /\ pc' = "returned"
            /\ UNCHANGED << section_idx, all_transactions >>
       ELSE /\ all_transactions' = << >>
            /\ section_idx' = 1
            /\ pc' = "sections"
            /\ UNCHANGED result
    /\ UNCHANGED << pdf_path, pdf_file >>
    /\ UNCHANGED << seg_vars, parse_vars, book_vars, run_vars >>

\* Line 250 with the running total of the previous call left in place.
FreshTotal_Kept(previous) == previous

\* Line 250: running_total = None, whatever an earlier call left.
FreshTotal(previous) == None

\* Lines 327-328 and 247-250: the next store is handed to the parser.
EnterParse ==
    /\ pc = "sections"
    /\ section_idx <= Len(store_sections)
    /\ store_name' = store_sections[section_idx].key
    /\ body' = store_sections[section_idx].value
    /\ body_lines' = Split(store_sections[section_idx].value)
    /\ body_idx' = 1
    /\ running_total' = FreshTotal(running_total)
    /\ transactions' = << >>
    /\ parsed' = NotParsed
    /\ pc' = "parse"
    /\ UNCHANGED << seg_vars, doc_vars, book_vars, run_vars >>

\* Line 329: all_transactions.extend(store_transactions)
ExtendAll ==
    /\ pc = "parsed"
    /\ all_transactions' = all_transactions \o transactions
    /\ section_idx' = section_idx + 1
    /\ pc' = "sections"
    /\ UNCHANGED << pdf_path, pdf_file, result >>
    /\ UNCHANGED << seg_vars, parse_vars, book_vars, run_vars >>

\* Lines 331-342: the table, or the second failure.
ReturnTable ==
    /\ pc = "sections"
    /\ section_idx > Len(store_sections)
    /\ result' = TableOrFailure(pdf_path, all_transactions)
    /\ pc' = "returned"
    /\ UNCHANGED << pdf_path, pdf_file, section_idx, all_transactions >>
    /\ UNCHANGED << seg_vars, parse_vars, book_vars, run_vars >>

DocumentNext ==
    \/ OpenPdf
    \/ OpenPage
    \/ ScanLine
    \/ AddLastStore
    \/ CheckSections
    \/ EnterParse
    \/ ParseLine
    \/ ParseReturn
    \/ ExtendAll
    \/ ReturnTable

SpecDocument == DocumentInit /\ [][DocumentNext]_vars

(***************************************************************************)
(* process_pdfs_to_excel                                                   *)
(***************************************************************************)
\* os.path.splitext(filename)[0]: the name up to its last ".", the "." that
\* only "." precede not counting
Stem(filename) ==
    LET dots == { i \in 2..Len(filename) :
                      /\ filename[i] = "."
                      /\ \E j \in 1..(i - 1) : filename[j] # "." }
    IN IF dots = { } THEN filename
       ELSE SubSeq(filename, 1, (CHOOSE i \in dots : \A j \in dots : j <= i) - 1)

\* Line 741: worksheet_name[:31]
SheetLimit == 31

\* Line 754: original_name[:27]
KeepLength == 27

InvalidChars == { "\\", "/", "*", "[", "]", ":", "?" }

\* Lines 744-746
ReplaceInvalid(name) ==
    [ i \in DOMAIN name |-> IF name[i] \in InvalidChars THEN "_" ELSE name[i] ]

\* Lines 740-746: the worksheet name before it is made unique
OriginalName(filename) == ReplaceInvalid(SlicePrefix(Stem(filename), SheetLimit))

RECURSIVE UniqueName(_, _, _, _)
\* Lines 751-755: the while loop, from its test
UniqueName(worksheet_name, original_name, counter, used) ==
    IF worksheet_name \notin used THEN worksheet_name
    ELSE LET long == original_name \o << "_" >> \o DigitsOf(counter)
             short == SlicePrefix(original_name, KeepLength) \o << "_" >> \o DigitsOf(counter)
         IN UniqueName(IF Len(long) > SheetLimit THEN short ELSE long,
                       original_name, counter + 1, used)

\* Lines 748-755
WorksheetName(filename, successful) ==
    UniqueName(OriginalName(filename), OriginalName(filename), 1,
               { successful[k].worksheet : k \in DOMAIN successful })

\* 'Summary'
SummaryName == << "S", "u", "m", "m", "a", "r", "y" >>

\* 'N/A'
NotApplicable == << "N", "/", "A" >>

\* Lines 769-787 without the rows of the failed files.
SummaryData_SuccessOnly(successful, failed) ==
    [ k \in DOMAIN successful |->
        [ Filename |-> successful[k].filename,
          Status |-> "Success",
          Worksheet |-> successful[k].worksheet,
          Transactions |-> successful[k].count,
          Notes |-> [ text |-> "transactions extracted", count |-> successful[k].count ] ] ]

\* Lines 769-787: a row for every successful file, then one for every failed file
SummaryData(successful, failed) ==
    [ k \in DOMAIN successful |->
        [ Filename |-> successful[k].filename,
          Status |-> "Success",
          Worksheet |-> successful[k].worksheet,
          Transactions |-> successful[k].count,
          Notes |-> [ text |-> "transactions extracted", count |-> successful[k].count ] ] ]
    \o [ k \in DOMAIN failed |->
           [ Filename |-> failed[k].filename,
             Status |-> "Failed",
             Worksheet |-> NotApplicable,
             Transactions |-> 0,
             Notes |-> failed[k].error ] ]

\* Lines 725-730
BookInit ==
    /\ pc = "book"
    /\ pdf_paths \in PdfLists
    /\ pdf_idx = 1
    /\ successful_files = << >>
    /\ failed_files = << >>
    /\ sheets = << >>
    /\ returned = None
    /\ outputs = << >>
    /\ SegmentIdle
    /\ ParseIdle
    /\ DocIdle
    /\ RunIdle

\* Lines 732-736: the next PDF is handed to process_single_pdf.
NextPdf ==
    /\ pc = "book"
    /\ pdf_idx <= Len(pdf_paths)
    /\ pdf_path' = pdf_paths[pdf_idx].name
    /\ pdf_file' = pdf_paths[pdf_idx].file
    /\ section_idx' = 0
    /\ all_transactions' = << >>
    /\ result' = NoResult
    /\ pc' = "open"
    /\ UNCHANGED << seg_vars, parse_vars, book_vars, run_vars >>

\* Lines 738-763: the table goes to a worksheet of its own, a failure to the
\* list of the failed files.
TakeResult ==
    /\ pc = "returned"
    /\ IF result.df # None
       THEN LET worksheet_name == WorksheetName(pdf_path, successful_files)
            IN /\ sheets' = Append(sheets, [ sheet_name |-> worksheet_name,
                                             rows |-> result.df[1] ])
               /\ successful_files' =
                     Append(successful_files,
                            [ worksheet |-> worksheet_name,
                              count |-> Len(result.df[1]),
                              filename |-> pdf_path ])
               /\ UNCHANGED failed_files
       ELSE /\ failed_files' = Append(failed_files,
                                      [ filename |-> pdf_path, error |-> result.error[1] ])
            /\ UNCHANGED << sheets, successful_files >>
    /\ outputs' = Append(outputs, [ sections |-> store_sections,
                                    records |-> all_transactions,
                                    df |-> result.df,
                                    error |-> IF result.error = None THEN "none"
                                              ELSE result.error[1].kind ])
    /\ pdf_idx' = pdf_idx + 1
    /\ pc' = "book"
    /\ UNCHANGED << pdf_paths, returned >>
    /\ UNCHANGED << seg_vars, parse_vars, doc_vars, run_vars >>

\* Lines 767-801: the summary worksheet, and the value returned.
WriteSummary ==
    /\ pc = "book"
    /\ pdf_idx > Len(pdf_paths)
    /\ sheets' = IF SummaryData(successful_files, failed_files) # << >>
                 THEN Append(sheets, [ sheet_name |-> SummaryName,
                                       rows |-> SummaryData(successful_files, failed_files) ])
                 ELSE sheets
    /\ returned' = Some(successful_files # << >>)
    /\ pc' = "done"
    /\ UNCHANGED << pdf_paths, pdf_idx, successful_files, failed_files, outputs >>
    /\ UNCHANGED << seg_vars, parse_vars, doc_vars, run_vars >>

BookNext ==
    \/ NextPdf
    \/ OpenPdf
    \/ OpenPage
    \/ ScanLine
    \/ AddLastStore
    \/ CheckSections
    \/ EnterParse
    \/ ParseLine
    \/ ParseReturn
    \/ ExtendAll
    \/ ReturnTable
    \/ TakeResult
    \/ WriteSummary

SpecBook == BookInit /\ [][BookNext]_vars

(***************************************************************************)
(* App: process_files, run_processing and process_complete                 *)
(***************************************************************************)
\* How many times the process button is pressed with valid entries.
MaxRuns == 2

\* What the two entries of the window can hold: nothing, a path that does not
\* exist, a file, a folder without emails, a folder whose emails are all in a
\* sub-folder, a folder of emails with remittance PDFs, and a folder of emails
\* whose PDFs are no remittance advices.
EmlFile == "inbox.eml"

InputFolders == { "", "missing", EmlFile, "no_mail", "nested", "mail", "other_mail" }

OutputPaths == { "", "out.xlsx" }

\* os.path.exists(input_folder)
PathExists(input_folder) == input_folder \notin { "", "missing" }

\* Lines 660-670: the message of the validation that fails, None when none does.
Validate(input_folder, output_path) ==
    IF input_folder = "" THEN Some("select_input")
    ELSE IF output_path = "" THEN Some("specify_output")
    ELSE IF ~PathExists(input_folder) THEN Some("not_exist")
    ELSE None

\* Lines 145-154: os.listdir of a file raises, os.walk of a file yields nothing.
ListingRaises(input_folder, recursive) == ~recursive /\ input_folder = EmlFile

\* Lines 145-190: how many PDFs the emails under the folder give.
ExtractedPdfs(input_folder, recursive) ==
    IF input_folder \in { "mail", "other_mail" } THEN 1
    ELSE IF input_folder = "nested" /\ recursive THEN 1
    ELSE 0

\* What process_pdfs_to_excel returns: False when no PDF gave a table.
ExcelWritten(input_folder, output_path) ==
    output_path # "" /\ input_folder \in { "mail", "nested" }

\* Lines 193-198: shutil.rmtree removes the folder, or fails and is ignored.
CleanupTempFolder(folder, existing, rmtree) ==
    IF folder # None /\ folder[1] \in existing /\ rmtree THEN existing \ { folder[1] }
    ELSE existing

\* self.after(0, lambda: self.process_complete(success, message))
After(queue, run, success, message) ==
    Append(queue, [ run |-> run, success |-> success, message |-> message ])

NextPosition_NoReturn(extracted_pdfs) == "excel"

\* Lines 698-700: with no PDF the worker returns after scheduling the callback.
NextPosition(extracted_pdfs) == IF extracted_pdfs = 0 THEN "finished" ELSE "excel"

Unfinished == { i \in DOMAIN threads : threads[i].at # "finished" }

RunInit ==
    /\ pc = "mainloop"
    /\ RunIdle
    /\ SegmentIdle
    /\ ParseIdle
    /\ DocIdle
    /\ BookIdle

\* Lines 656-686. The button calls its command only while its state is normal.
ProcessFiles ==
    /\ pc = "mainloop"
    /\ button_state = "normal"
    /\ Len(threads) < MaxRuns
    /\ \E input_folder \in InputFolders, output_path \in OutputPaths, recursive \in BOOLEAN :
          IF Validate(input_folder, output_path) # None
          THEN /\ dialog' = Validate(input_folder, output_path)[1]
               /\ UNCHANGED << button_state, is_running, threads >>
          ELSE /\ button_state' = "disabled"
               /\ is_running' = TRUE
               /\ threads' = Append(threads, [ at |-> "extract",
                                               input_folder |-> input_folder,
                                               output_path |-> output_path,
                                               recursive |-> recursive,
                                               scheduled |-> 0 ])
               /\ UNCHANGED dialog
    /\ UNCHANGED << after_queue, temp_pdf_folder, folders, made, completed >>
    /\ UNCHANGED << pc, seg_vars, parse_vars, doc_vars, book_vars >>

\* Lines 689-700 and 718-720 with extract_pdfs_from_emails, lines 136-190:
\* tempfile.mkdtemp makes the folder or raises, the listing raises or not, and
\* the worker goes on only with a PDF.
ExtractPdfs(i) ==
    /\ threads[i].at = "extract"
    /\ \E mkdtemp \in BOOLEAN :
          LET t == threads[i]
              raised == ~mkdtemp \/ ListingRaises(t.input_folder, t.recursive)
              extracted_pdfs == ExtractedPdfs(t.input_folder, t.recursive)
          IN /\ IF mkdtemp
                THEN /\ temp_pdf_folder' = Some(made + 1)
                     /\ folders' = folders \cup { made + 1 }
                     /\ made' = made + 1
                ELSE UNCHANGED << temp_pdf_folder, folders, made >>
             /\ IF raised
                THEN /\ after_queue' = After(after_queue, i, FALSE, "exception")
                     /\ threads' = [ threads EXCEPT ![i].at = "finished",
                                                    ![i].scheduled = @ + 1 ]
                ELSE /\ after_queue' = IF extracted_pdfs = 0
                                       THEN After(after_queue, i, FALSE, "no_pdfs")
                                       ELSE after_queue
                     /\ threads' = [ threads EXCEPT
                                        ![i].at = NextPosition(extracted_pdfs),
                                        ![i].scheduled = IF extracted_pdfs = 0
                                                         THEN @ + 1 ELSE @ ]
    /\ UNCHANGED << button_state, is_running, dialog, completed >>
    /\ UNCHANGED << pc, seg_vars, parse_vars, doc_vars, book_vars >>

\* Lines 702-716: process_pdfs_to_excel catches what it raises and answers
\* True or False.
ProcessToExcel(i) ==
    /\ threads[i].at = "excel"
    /\ LET t == threads[i]
           success == ExcelWritten(t.input_folder, t.output_path)
       IN /\ after_queue' = After(after_queue, i, success,
                                  IF success THEN "success" ELSE "excel_failed")
          /\ threads' = [ threads EXCEPT ![i].at = "finished",
                                         ![i].scheduled = @ + 1 ]
    /\ UNCHANGED << button_state, is_running, temp_pdf_folder, folders, made, dialog,
                    completed >>
    /\ UNCHANGED << pc, seg_vars, parse_vars, doc_vars, book_vars >>

\* The steps of the worker threads.
RunProcessing == \E i \in DOMAIN threads : ExtractPdfs(i) \/ ProcessToExcel(i)

\* Lines 565-575, run by the main loop for the callback scheduled first.
\* shutil.rmtree is called when the folder exists, and can fail.
ProcessComplete ==
    /\ pc = "mainloop"
    /\ after_queue # << >>
    /\ button_state' = "normal"
    /\ is_running' = FALSE
    /\ dialog' = IF Head(after_queue).success THEN "success" ELSE "error"
    /\ \E rmtree \in IF CleanupTempFolder(temp_pdf_folder, folders, TRUE) # folders
                       THEN BOOLEAN ELSE { TRUE } :
          /\ folders' = CleanupTempFolder(temp_pdf_folder, folders, rmtree)
          /\ completed' = Append(completed, [ run |-> Head(after_queue).run,
                                              success |-> Head(after_queue).success,
                                              message |-> Head(after_queue).message,
                                              rmtree |-> rmtree ])
    /\ after_queue' = Tail(after_queue)
    /\ UNCHANGED << threads, temp_pdf_folder, made >>
    /\ UNCHANGED << pc, seg_vars, parse_vars, doc_vars, book_vars >>

RunNext ==
    \/ ProcessFiles
    \/ \E i \in DOMAIN threads : ExtractPdfs(i)
    \/ \E i \in DOMAIN threads : ProcessToExcel(i)
    \/ ProcessComplete

\* The operating system runs a started thread, and app.mainloop() runs the
\* callbacks handed to self.after.
SpecRun ==
    /\ RunInit
    /\ [][RunNext]_vars
    /\ WF_vars(RunProcessing)
    /\ WF_vars(ProcessComplete)

(***************************************************************************)
(* Properties of the segmentation.                                         *)
(***************************************************************************)
\* The lines of the whole document, page after page.
RECURSIVE AllLines(_)
AllLines(pages) ==
    IF pages = << >> THEN << >> ELSE Split(pages[1]) \o AllLines(Tail(pages))

\* C1: a line matching the header pattern is taken as a store header exactly
\* when "REMITTANCE" occurred earlier in the line stream of the document, that
\* is exactly when the running flag is set.
C1_LookBackIsRunningFlag ==
    (step.done /\ step.matched) => (step.boundary <=> step.seen.remittance)

\* C2: a header line scanned before any "REMITTANCE" leaves the current store,
\* the buffer, the capture mode and the result as they were, and no store is
\* current after it.
C2_HeaderBeforeMarkerIgnored ==
    (pc # "segmented" /\ step.done /\ step.matched /\ ~step.seen.remittance)
        => /\ current_store = step.store
           /\ store_content = step.content
           /\ capture_mode = step.mode
           /\ store_sections = step.sections
           /\ HeaderName(step.line) \notin DictKeys(store_sections)

\* C2, reached: a header line that precedes the marker of its own page was
\* scanned and was not taken as a header.
C2_Witness ==
    /\ pc = "lines"
    /\ step.done /\ step.matched /\ ~step.seen.remittance /\ ~step.boundary
    /\ step.line = LineHeaderA
    /\ Contains(text, Marker)

\* A line that is neither a header nor a table start nor a table end.
PlainLine(line) ==
    ~HeaderMatch(line) /\ ~Contains(line, TableStart) /\ ~Contains(line, TableEnd)

\* ls[a] and ls[b] are headers of two different stores, both after a
\* "REMITTANCE" line, each followed by "Date Amount Total", then by its
\* transaction lines up to its "TOTAL AS PER STATEMENT" line ls[ta], ls[tb]; no
\* other line after the first "REMITTANCE" is a header or a table start.
TwoStoreShape(ls, a, ta, b, tb) ==
    /\ a + 2 < ta /\ ta < b /\ b + 2 < tb
    /\ HeaderMatch(ls[a]) /\ HeaderMatch(ls[b])
    /\ HeaderName(ls[a]) # << >> /\ HeaderName(ls[b]) # << >>
    /\ HeaderName(ls[a]) # HeaderName(ls[b])
    /\ Contains(ls[a + 1], TableStart) /\ Contains(ls[b + 1], TableStart)
    /\ Contains(ls[ta], TableEnd) /\ Contains(ls[tb], TableEnd)
    /\ \A i \in ((a + 2)..(ta - 1)) \cup ((b + 2)..(tb - 1)) : PlainLine(ls[i])
    /\ \E m \in 1..(a - 1) : Contains(ls[m], Marker)
    /\ \A i \in (1..Len(ls)) \ ((a..ta) \cup (b..tb)) :
          \/ ~HeaderMatch(ls[i]) /\ ~Contains(ls[i], TableStart)
          \/ ~\E m \in 1..i : Contains(ls[m], Marker)

\* C3: a document of that shape is segmented into exactly the two stores, each
\* with the lines between its own table start and table end.
C3_TwoStoresSegmented ==
    pc = "segmented" =>
        LET ls == AllLines(pdf_pages)
        IN \A a, ta, b, tb \in 1..Len(ls) :
              TwoStoreShape(ls, a, ta, b, tb) =>
                  store_sections =
                      << [ key |-> HeaderName(ls[a]),
                           value |-> Join(SubSeq(ls, a + 2, ta - 1)) ],
                         [ key |-> HeaderName(ls[b]),
                           value |-> Join(SubSeq(ls, b + 2, tb - 1)) ] >>

\* C4 as stated: once "TOTAL AS PER STATEMENT" was scanned under the current
\* store, no line is captured until the next store header, whatever follows.
C4_NothingAfterTableEnd ==
    (step.done /\ step.seen.total /\ ~step.boundary) => ~step.captured

\* C4, amended: the "TOTAL AS PER STATEMENT" line is never captured; after it no
\* line is captured and the buffer is unchanged until the next store header or
\* the next "Date Amount Total" line; and a store with a non-empty buffer is
\* stored with that buffer at the next store header and at the end of input.
C4_ClosedUntilHeaderOrTableStart ==
    /\ (step.done /\ Contains(step.line, TableEnd)) => ~step.captured
    /\ (pc # "segmented" /\ step.done /\ Truthy(current_store)
            /\ Contains(step.line, TableEnd) /\ ~Contains(step.line, TableStart))
          => ~capture_mode
    /\ (pc # "segmented" /\ step.done /\ step.seen.closed /\ ~step.boundary
            /\ ~Contains(step.line, TableStart))
          => /\ ~step.captured
             /\ ~capture_mode
             /\ store_content = step.content
    /\ (step.done /\ step.boundary /\ Truthy(step.store) /\ step.content # << >>)
          => /\ step.store[1] \in DictKeys(store_sections)
             /\ (pc # "segmented" =>
                    DictValue(store_sections, step.store[1]) = Join(step.content))
    /\ (pc = "segmented" /\ Truthy(current_store) /\ store_content # << >>)
          => /\ current_store[1] \in DictKeys(store_sections)
             /\ DictValue(store_sections, current_store[1]) = Join(store_content)

\* C4, reached: the input ended with text after the table end of StoreA, and
\* StoreA is stored with the one line captured before the table end.
C4_Witness ==
    /\ pc = "segmented"
    /\ step.done /\ step.seen.closed /\ ~step.boundary /\ step.line = LineBar
    /\ store_sections = << [ key |-> << W("StoreA") >>, value |-> LineFoo ] >>

\* C5: a line is captured only if a "Date Amount Total" line was scanned after
\* the header of the current store; a line containing "Date Amount Total" and
\* the line of a store header are never captured; capture mode is on only after
\* such a line.
C5_CaptureOnlyAfterTableStart ==
    /\ (step.done /\ step.captured)
          => /\ step.seen.table
             /\ ~step.boundary
             /\ ~Contains(step.line, TableStart)
             /\ store_content = Append(step.content, step.line)
    /\ (step.done /\ ~step.captured /\ ~step.boundary /\ pc # "segmented")
          => store_content = step.content
    /\ (step.done /\ step.boundary) => store_content = << >>
    /\ capture_mode => seen.table

\* C5, reached: a store header was scanned while the previous store was still
\* capturing, and nothing is captured for the new store yet.
C5_Witness ==
    /\ step.done /\ step.boundary /\ step.mode /\ step.content # << >>
    /\ ~capture_mode /\ store_content = << >> /\ ~seen.table

(***************************************************************************)
(* Properties of the transaction parser.                                   *)
(***************************************************************************)
\* The record appended by the last iteration, when parsed.matched.
LastRecord == transactions[Len(transactions)]

\* The total field of the line is absent, empty, "0" or "0.00".
NoTotal(total) == total = None \/ Chars(total[1]) = << >> \/ total[1] \in ZeroTexts

\* C6: a record whose line has no usable total (no total, "0", "0.00", or a
\* total holding no decimal number) carries its amount when it is the first
\* record, and the previous record's running total plus its amount otherwise.
C6_RunningSumWithoutTotals ==
    (parsed.done /\ parsed.matched
        /\ (\/ NoTotal(parsed.total)
            \/ FloatOf(parsed.total[1]) = None /\ FirstNumber(parsed.total[1]) = None))
      => LastRecord.Running_Total =
            Some(IF Len(transactions) = 1 THEN LastRecord.Amount
                 ELSE transactions[Len(transactions) - 1].Running_Total[1]
                          + LastRecord.Amount)

\* C7: a line without a total, or with the total "0.00" or "0", read while a
\* running total exists, gets the running total plus its amount, and that sum
\* is the running total carried on; Foo 100.00 100.00 then Bar 50.00 0.00 gives
\* the second record 150.00.
C7_ZeroTotalRepaired ==
    /\ (parsed.done /\ parsed.matched /\ parsed.before # None
           /\ (parsed.total = None \/ parsed.total[1] \in ZeroTexts))
         => /\ LastRecord.Running_Total = Some(parsed.before[1] + parsed.amount)
            /\ running_total = Some(parsed.before[1] + parsed.amount)
    /\ (pc = "parsed" /\ body = Join(<< LineFoo, LineBar >>))
         => /\ Len(transactions) = 2
            /\ transactions[2].Running_Total = Some(15000)

\* C7, reached: after 100.00 and 150.00 the line "Baz -150.00 0" brings the
\* running total to zero.
C7_Witness ==
    /\ parsed.done /\ parsed.matched
    /\ parsed.line = LineBaz /\ parsed.total[1] \in ZeroTexts
    /\ parsed.before = Some(15000)
    /\ Len(transactions) = 3
    /\ transactions[2].Running_Total = Some(15000)
    /\ LastRecord.Running_Total = Some(0)
    /\ running_total = Some(0)

\* C8: every record has a running total.
C8_RunningTotalNeverNull ==
    \A i \in 1..Len(transactions) : transactions[i].Running_Total # None

\* C8, reached: the first line of the body has the total "0.00", no running
\* total was established, and its record has one.
C8_Witness ==
    /\ parsed.done /\ parsed.matched /\ parsed.before = None
    /\ parsed.total # None
    /\ parsed.total[1] \in ZeroTexts
    /\ running_total = None
    /\ Len(transactions) = 1
    /\ LastRecord.Running_Total = Some(LastRecord.Amount)

\* C9: a total that float() parses and that is neither "0" nor "0.00" is the
\* running total of the record and of the lines after it, whatever the running
\* total and the amount were; ".75" is 0.75; Sale 200.00 200.00 then
\* Revesal item -50.00 150.00 gives 200.00 and 150.00.
C9_ParsedTotalTaken ==
    /\ (parsed.done /\ parsed.matched /\ parsed.total # None
           /\ parsed.total[1] \notin ZeroTexts /\ FloatOf(parsed.total[1]) # None)
         => /\ LastRecord.Running_Total = FloatOf(parsed.total[1])
            /\ running_total = FloatOf(parsed.total[1])
    /\ (parsed.done /\ parsed.line = LineFee)
         => /\ parsed.matched
            /\ LastRecord.Running_Total = Some(75)
    /\ (parsed.done /\ parsed.line = LineRebate)
         => /\ parsed.matched
            /\ LastRecord.Running_Total = Some(114000)
    /\ (pc = "parsed" /\ body = Join(<< LineSale, LineRevesal >>))
         => /\ Len(transactions) = 2
            /\ transactions[1].Running_Total = Some(20000)
            /\ transactions[2].Running_Total = Some(15000)

\* C9, reached: the total 150.00 of the Revesal line replaces a running total
\* of 0.75 that, with the amount -50.00, would have given -49.25.
C9_Witness ==
    /\ parsed.done /\ parsed.matched /\ parsed.line = LineRevesal
    /\ parsed.before = Some(75)
    /\ LastRecord.Amount = -5000
    /\ LastRecord.Running_Total = Some(15000)
    /\ running_total = Some(15000)

HasRebateText(r) == Contains(r.Description, RebateText)

HasReversalText(r) ==
    Contains(r.Description, << W("Revesal") >>) \/ Contains(r.Description, << W("Reversal") >>)

\* C10: Rebate if the description contains the rebate text; otherwise Reversal
\* if it contains "Revesal" or "Reversal"; otherwise Credit if the amount is
\* negative; otherwise Invoice.
C10_TypePrecedence ==
    \A i \in 1..Len(transactions) :
        LET r == transactions[i]
        IN /\ r.Transaction_Type \in { "Rebate", "Reversal", "Credit", "Invoice" }
           /\ r.Transaction_Type = "Rebate" <=> HasRebateText(r)
           /\ r.Transaction_Type = "Reversal" <=> (~HasRebateText(r) /\ HasReversalText(r))
           /\ r.Transaction_Type = "Credit"
                 <=> (~HasRebateText(r) /\ ~HasReversalText(r) /\ r.Amount < 0)
           /\ r.Transaction_Type = "Invoice"
                 <=> (~HasRebateText(r) /\ ~HasReversalText(r) /\ r.Amount >= 0)

\* C10, reached: a Rebate whose description also says "Reversal", a Reversal
\* with a negative amount and an Invoice with amount 0, in one body.
C10_Witness ==
    /\ pc = "parsed"
    /\ Len(transactions) = 3
    /\ transactions[1].Transaction_Type = "Rebate" /\ HasReversalText(transactions[1])
    /\ transactions[2].Transaction_Type = "Reversal" /\ transactions[2].Amount < 0
    /\ transactions[3].Transaction_Type = "Invoice" /\ transactions[3].Amount = 0

(***************************************************************************)
(* Properties of process_single_pdf.                                       *)
(***************************************************************************)
NoSections == Some(Failure("No store sections found in", pdf_path))

NoTransactions == Some(Failure("No transactions found in", pdf_path))

\* No line of any stored section gives a record.
NoRecordLine ==
    \A k \in DOMAIN store_sections :
        \A i \in DOMAIN Split(store_sections[k].value) :
            LET line == Split(store_sections[k].value)[i]
            IN IsNoise(line) \/ Match(line) = NoMatch

\* The text has no REMITTANCE marker, or no line of the header shape.
NoMarkerOrNoHeader(pages) ==
    \/ \A i \in DOMAIN AllLines(pages) : ~Contains(AllLines(pages)[i], Marker)
    \/ \A i \in DOMAIN AllLines(pages) : ~HeaderMatch(AllLines(pages)[i])

\* C11: process_single_pdf returns exactly one of a table and a failure message.
\* For a file that was read, the failure is "No store sections found" exactly
\* when the segmentation stored no section (as for a text without the marker
\* or without a header line), it is "No transactions found" exactly when
\* sections were stored and none of their lines gives a record, and otherwise
\* the result is a table, which has at least one row.
C11_TableOrLabelledFailure ==
    pc = "returned"
        => /\ (result.df = None) # (result.error = None)
           /\ pdf_file # None
                => /\ (result.error = NoSections) <=> (store_sections = << >>)
                   /\ (result.error = NoTransactions)
                         <=> (store_sections # << >> /\ NoRecordLine)
                   /\ (result.df # None) <=> (store_sections # << >> /\ ~NoRecordLine)
                   /\ result.df # None => result.df[1] # << >>
                   /\ NoMarkerOrNoHeader(pdf_file[1]) => result.error = NoSections

\* C11, reached: sections were stored, none of their lines gave a record, and
\* the failure was returned.
C11_Witness ==
    /\ pc = "returned"
    /\ store_sections # << >>
    /\ NoRecordLine
    /\ result.error = NoTransactions

\* The record and the row agree on every column but the date.
SameButDate(record, row) ==
    /\ row.Store = record.Store
    /\ row.Description = record.Description
    /\ row.Amount = record.Amount
    /\ row.Transaction_Type = record.Transaction_Type

\* C12: a record whose date is no valid DD-MMM-YYYY date (such as
\* "99-Foo-2024") is in the returned table with the other records, and its row
\* carries the date string as it stood on the line.
C12_InvalidDateKeptRaw ==
    (pc = "returned" /\ result.df # None)
        => \A i \in DOMAIN all_transactions :
               ToDatetime(all_transactions[i].Date) = None
                   => \E j \in DOMAIN result.df[1] :
                          /\ SameButDate(all_transactions[i], result.df[1][j])
                          /\ result.df[1][j].Date = Some(all_transactions[i].Date)

\* C13: the returned table has one row for every record of the parser, and
\* the row carries all six fields of the record with the parser's values:
\* store, description, amount, type and running total as they were computed,
\* and the date written again as DD-MMM-YYYY.
C13_AllSixFieldsKept ==
    (pc = "returned" /\ result.df # None)
        => /\ Len(result.df[1]) = Len(all_transactions)
           /\ \A i \in DOMAIN all_transactions :
                  \E j \in DOMAIN result.df[1] :
                      /\ SameButDate(all_transactions[i], result.df[1][j])
                      /\ ToDatetime(all_transactions[i].Date) # None
                            => result.df[1][j].Date
                                  = Strftime(ToDatetime(all_transactions[i].Date))
                      /\ "Running_Total" \in DOMAIN result.df[1][j]
                      /\ result.df[1][j].Running_Total
                            = all_transactions[i].Running_Total

\* C14: the rows of the returned table stand in ascending order of store name,
\* and the dated rows of one store in ascending order of calendar date, which
\* is not the order of the date strings.
C14_SortedByStoreThenDate ==
    (pc = "returned" /\ result.df # None)
        => \A i, j \in DOMAIN result.df[1] :
               i < j
                   => LET a == result.df[1][i]
                          b == result.df[1][j]
                      IN /\ ~StrLess(Chars(b.Store), Chars(a.Store))
                         /\ (a.Store = b.Store /\ a.Date # None /\ b.Date # None)
                               => DateKey(ToDatetime(a.Date[1]))
                                     <= DateKey(ToDatetime(b.Date[1]))

\* C14, reached: a table whose first record came from store Beta and whose
\* first row is of store Alpha, with two rows of one store whose date strings
\* stand in descending order.
C14_Witness ==
    /\ pc = "returned"
    /\ result.df # None
    /\ all_transactions[1].Store = Beta
    /\ result.df[1][1].Store = Alpha
    /\ \E i, j \in DOMAIN result.df[1] :
           /\ i < j
           /\ result.df[1][i].Store = result.df[1][j].Store
           /\ result.df[1][i].Date # None
           /\ result.df[1][j].Date # None
           /\ StrLess(result.df[1][j].Date[1], result.df[1][i].Date[1])

(***************************************************************************)
(* Properties of the parser on bodies with noise.                          *)
(***************************************************************************)
\* The lines the parser is to pass over: blank, containing "Prepared by",
\* exactly "-", or of no transaction shape.
Skippable(line) ==
    \/ Strip(line) = << >>
    \/ Contains(line, << W("Prepared"), W("by") >>)
    \/ Strip(line) = << W("-") >>
    \/ line = LinePage

\* ls without its i-th line
RemoveAt(ls, i) == SubSeq(ls, 1, i - 1) \o SubSeq(ls, i + 1, Len(ls))

\* C15: a blank line, a "Prepared by" line, a "-" line or a line matching no
\* pattern gives no record and leaves the running total as it was: the parser
\* returns, and returns the records it returns for the body without that line.
C15_NoiseLeavesNoTrace ==
    /\ (parsed.done /\ Skippable(parsed.line))
          => /\ ~parsed.matched
             /\ running_total = parsed.before
    /\ pc = "parsed"
          => \A i \in DOMAIN body_lines :
                 Skippable(body_lines[i])
                     => transactions = ParseAll(store_name, Join(RemoveAt(body_lines, i)))

\* C15, reached: a "Prepared by" line of the shape of a transaction stood
\* between two transaction lines, and the second one, whose total is 0.00,
\* has the running total 100.00 + 50.00.
C15_Witness ==
    /\ pc = "parsed"
    /\ body_lines = << LineFoo, LinePreparedBy, LineBar >>
    /\ Len(transactions) = 2
    /\ transactions[2].Running_Total = Some(15000)

(***************************************************************************)
(* Further properties of the segmentation.                                 *)
(***************************************************************************)
\* The step scans a line taken as a store header; the step ends the input.
AtHeader == pc = "lines" /\ step'.boundary

AtEnd == pc = "pages" /\ pc' = "segmented"

\* A store is current and its buffer has a line.
Open == Truthy(current_store) /\ store_content # << >>

\* C16: the result changes only at a recognised store header and at the end of
\* the input, and there the current store, if its buffer has a line, is stored
\* with the joined buffer; no other name is added, and the body stored for
\* any other name stays as it is.  There is one buffer: a captured line is
\* appended to it (emptied first at a header) and to nothing else.
C16_FinalizedAtHeaderOrEnd ==
    [][ /\ store_sections' # store_sections => (AtHeader \/ AtEnd) /\ Open
        /\ ((AtHeader \/ AtEnd) /\ Open)
              => /\ current_store[1] \in DictKeys(store_sections')
                 /\ DictValue(store_sections', current_store[1]) = Join(store_content)
        /\ \A k \in DictKeys(store_sections) :
               /\ k \in DictKeys(store_sections')
               /\ (~Open \/ k # current_store[1])
                     => DictValue(store_sections', k) = DictValue(store_sections, k)
        /\ DictKeys(store_sections')
              \subseteq DictKeys(store_sections)
                           \cup (IF Open THEN { current_store[1] } ELSE { })
        /\ pc = "lines"
              => store_content' =
                    (IF step'.boundary THEN << >> ELSE store_content)
                       \o (IF step'.captured THEN << lines[line_idx] >> ELSE << >>)
        /\ pc # "lines" => store_content' = store_content
      ]_vars

\* C16, reached: the input ended, the last store was stored, and the body
\* stored at its header for the store before it is in the result as well.
C16_Witness ==
    /\ pc = "segmented"
    /\ Len(store_sections) = 2
    /\ Truthy(current_store)
    /\ DictValue(store_sections, current_store[1]) = Join(store_content)

\* The result maps exactly the names of d, each to the joined lines d has.
MapsTo(d) ==
    /\ DictKeys(store_sections) = { d[k].key : k \in DOMAIN d }
    /\ \A k \in DOMAIN d : DictValue(store_sections, d[k].key) = Join(d[k].value)

\* C17 as stated: every name of the result is mapped to the body captured
\* under the last header taken for that name, whatever the earlier headers of
\* the name captured.
C17_LastHeaderWins ==
    pc = "segmented"
        => \A k \in DOMAIN store_sections :
               store_sections[k].value
                   = Join(DictValue(seen.last, store_sections[k].key))

\* C17, amended: the result maps a name to the body captured under the last
\* header of that name under which a line was captured; a later header of the
\* name that captured nothing leaves the earlier body in place.
C17_LastWriteWins == pc = "segmented" => MapsTo(seen.kept)

\* C17, reached: StoreA had two headers, "01-Jan-2024 Foo ..." was captured
\* under the first and "02-Jan-2024 Bar ..." under the second, and the result
\* maps StoreA to the second body.
C17_Witness ==
    /\ pc = "segmented"
    /\ AllLines(pdf_pages)
          = << LineMarker, LineHeaderA, LineTableStart, LineFoo,
               LineHeaderA, LineTableStart, LineBar >>
    /\ DictValue(store_sections, << W("StoreA") >>) = LineBar

(***************************************************************************)
(* Properties of process_pdfs_to_excel.                                    *)
(***************************************************************************)
\* C18: what a call of the parser returns is a function of its own arguments,
\* whatever store or document was parsed before it, and two documents of one
\* list with the same text give the same sections, the same records and the
\* same table or failure, wherever they stand in the list.
C18_SameTextSameOutput ==
    /\ pc = "parsed" => transactions = ParseAll(store_name, body)
    /\ \A i, j \in DOMAIN outputs :
           pdf_paths[i].file = pdf_paths[j].file => outputs[i] = outputs[j]

\* C18, reached: the same statement was processed twice in one list; its first
\* line has the total 0.00, and both times the first record has the running
\* total 50.00, the amount of the line, although a running total of 130.00
\* was left by the first pass.
C18_Witness ==
    /\ pc = "done"
    /\ Len(outputs) = 2
    /\ pdf_paths[1].file = pdf_paths[2].file
    /\ outputs[2].records # << >>
    /\ outputs[2].records[1].Running_Total = Some(5000)
    /\ outputs[1].records[Len(outputs[1].records)].Running_Total = Some(13000)

\* C19: the sheet names written into one workbook, those of the documents and
\* that of the summary, differ from one another, have at most 31 characters
\* and contain none of \ / * [ ] : ?
C19_SheetNamesDistinctAndValid ==
    pc = "done"
        => /\ \A i, j \in DOMAIN sheets :
                  i # j => sheets[i].sheet_name # sheets[j].sheet_name
           /\ \A i \in DOMAIN sheets :
                  /\ Len(sheets[i].sheet_name) <= 31
                  /\ \A k \in DOMAIN sheets[i].sheet_name :
                         sheets[i].sheet_name[k] \notin { "\\", "/", "*", "[", "]", ":", "?" }

C21_NoEmptySection ==
    /\ \A k \in DOMAIN store_sections :
           /\ store_sections[k].key \in DictKeys(seen.kept)
           /\ DictValue(seen.kept, store_sections[k].key) # << >>
           /\ pc \notin { "pages", "lines" }
                 => store_sections[k].value
                       = Join(DictValue(seen.kept, store_sections[k].key))
    /\ (pc \in { "pages", "lines" } /\ step.done /\ store_sections # step.sections)
           => /\ Truthy(step.store)
              /\ step.content # << >>
    /\ \A k \in DOMAIN seen.last :
           seen.last[k].key \notin DictKeys(seen.kept)
               => seen.last[k].key \notin DictKeys(store_sections)
    /\ (pc = "returned" /\ pdf_file # None /\ seen.kept = << >>)
           => result.error = NoSections

\* C21, reached: the headers of two stores were taken, one with no "Date
\* Amount Total" line after it and one with nothing after that line; no line
\* was captured, the result is empty and the failure is "No store sections
\* found".
C21_Witness ==
    /\ pc = "returned"
    /\ Len(seen.last) = 2
    /\ seen.kept = << >>
    /\ store_sections = << >>
    /\ result.error = NoSections

(***************************************************************************)
(* Properties of a processing run.                                         *)
(***************************************************************************)
RECURSIVE ScheduledUpTo(_)
\* The calls of self.after the first n worker threads have made.
ScheduledUpTo(n) == IF n = 0 THEN 0 ELSE ScheduledUpTo(n - 1) + threads[n].scheduled

\* One worker at most, one callback at most from each worker and exactly one
\* from a finished worker; the callbacks are run in the order of the runs; the
\* button is disabled and the flag set from the start of a run to its
\* process_complete; after it the button is normal and the flag is cleared.
RunSafe ==
    /\ Cardinality(Unfinished) <= 1
    /\ \A i \in DOMAIN threads :
          /\ threads[i].scheduled <= 1
          /\ threads[i].at = "finished" <=> threads[i].scheduled = 1
    /\ Len(completed) + Len(after_queue) = ScheduledUpTo(Len(threads))
    /\ Len(after_queue) <= 1
    /\ \A k \in DOMAIN completed : completed[k].run = k
    /\ Len(completed) < Len(threads)
          => /\ button_state = "disabled"
             /\ is_running
             /\ Len(completed) = Len(threads) - 1
    /\ Len(completed) = Len(threads)
          => /\ button_state = "normal"
             /\ ~is_running
             /\ Unfinished = { }

\* After process_complete no temporary folder is left.
FolderRemoved == Len(completed) = Len(threads) => folders = { }

\* After process_complete the temporary folder is gone when shutil.rmtree did
\* its work, and is still there when it failed.
FolderRemovedUnlessRmtreeFails ==
    /\ temp_pdf_folder = None => folders = { }
    /\ (Len(completed) = Len(threads) /\ completed # << >> /\ temp_pdf_folder # None)
           => (temp_pdf_folder[1] \notin folders <=> completed[Len(completed)].rmtree)

====
